---- MODULE Spec2Model ----
(***************************************************************************)
(* SEO Audit Gateway: the crawl-job orchestrator (submitCrawl, pollJob,    *)
(* ingestResults, listJobs, getJob), the read operations (getPages,        *)
(* getIssues, queryDb) and the token check of the dual-role worker and of  *)
(* the standalone REST gateway, as a state machine over the D1 tables, the *)
(* R2 bucket, the per-job crawler containers and the requests in flight.   *)
(* One action is the code a request runs between two suspension points     *)
(* (await on D1, R2 or the container).                                     *)
(***************************************************************************)
EXTENDS Integers, Sequences, FiniteSets, TLC

\* ------------------------------------------------------------------------
\* Bounds of the model
\* ------------------------------------------------------------------------
MaxJobs == 1
MaxReq == 2
MaxPagesInPayload == 1
MaxIngests == 2
MaxFaults == 1

\* ------------------------------------------------------------------------
\* Program constants
\* ------------------------------------------------------------------------
DefaultMaxPages == 50
DefaultMaxDepth == 3
DefaultListLimit == 20
MaxListLimit == 100
DefaultPageLimit == 50
MaxPageLimit == 200

\* SQL NULL / JS null for a numeric column, and a field missing from a JSON
\* object (JS undefined).
NullInt == -1
Absent == -2
NullStr == "NULL"
AbsentStr == "ABSENT"
Now == 1

JobIds == 1..MaxJobs
Req == 1..MaxReq

Terminal == {"completed", "failed"}
Statuses == {"queued", "running", "completed", "failed"}

\* The three adapters in front of the business logic: the REST routes of
\* the dual-role worker, its MCP tool handlers, and the REST routes of the
\* standalone gateway.
Adapters == {"rest", "mcp", "gateway"}

\* A store write, snapshot put or container call fails at most MaxFaults
\* times in a behaviour; ingestResults runs at most MaxIngests times per job.

\* ------------------------------------------------------------------------
\* Inputs
\* ------------------------------------------------------------------------
\* new URL(url).hostname, tabulated for the URLs submitted in the model.
\* "" stands for a missing url; "not a url" makes new URL() throw.
Urls == {"https://example.com", "https://shop.example.org:8443/a", "not a url", ""}

WellFormed(url) == url \in {"https://example.com", "https://shop.example.org:8443/a"}

Hostname(url) ==
    CASE url = "https://example.com" -> "example.com"
      [] url = "https://shop.example.org:8443/a" -> "shop.example.org"
      [] OTHER -> NullStr

MaxPagesArgs == {Absent}
MaxDepthArgs == {Absent}

\* x ?? d
Coalesce(x, d) == IF x = Absent \/ x = NullInt THEN d ELSE x

\* ------------------------------------------------------------------------
\* Result payloads a container can report
\* ------------------------------------------------------------------------
PageFail == [url |-> "https://example.com/", title_status |-> "fail",
             meta_desc_status |-> "pass", h1_count |-> 1,
             has_viewport |-> TRUE, mixed_content |-> FALSE]

IssueCritical == [issue_type |-> "missing_title", severity |-> "critical"]

NoSummary == [present |-> FALSE, score |-> Absent]
Summary73 == [present |-> TRUE, score |-> 73]

PagesOfLen(n) == [i \in 1..n |-> PageFail]

\* pages, issues, summary, snapshots: each section may be missing or empty.
Payloads ==
    { [pages |-> <<>>, issues |-> <<>>, summary |-> NoSummary, snapshots |-> <<>>],
      [pages |-> <<>>, issues |-> <<>>, summary |-> Summary73, snapshots |-> <<>>] }
    \cup
    { [pages |-> PagesOfLen(n), issues |-> <<IssueCritical>>, summary |-> Summary73,
       snapshots |-> <<"https://example.com/">>] : n \in 1..MaxPagesInPayload }

\* ------------------------------------------------------------------------
\* State
\* ------------------------------------------------------------------------
VARIABLES
    crawl_jobs,      \* D1 table crawl_jobs: job id -> row
    page_audits,     \* D1 table page_audits: sequence of rows
    site_issues,     \* D1 table site_issues: sequence of rows
    site_summaries,  \* D1 table site_summaries: sequence of rows
    snapshots,       \* R2 bucket: set of keys
    container,       \* per job id: the crawler container's state
    req,             \* per request slot: the request in flight
    last,            \* the request being answered and the answer it gets
    ingests,         \* per job id: how many times ingestResults was entered
    faults           \* how many store / bucket / container failures happened

vars == <<crawl_jobs, page_audits, site_issues, site_summaries, snapshots, container, req,
          last, ingests, faults>>

store == <<crawl_jobs, page_audits, site_issues, site_summaries, snapshots>>

NoJob == [id |-> 0, status |-> NullStr, score |-> NullInt, pages_found |-> NullInt,
          pages_done |-> NullInt, error |-> NullStr]

NoResults == [pages |-> <<>>, issues |-> <<>>, summary |-> NoSummary, snapshots |-> <<>>]

\* A response as the caller sees it.  class: "json" (HTTP response with a
\* JSON body), "tool" / "tool_error" (MCP tool result), "uncaught" (the
\* exception left the request handler), "none" (no response yet).
NoResp == [class |-> "none", http |-> 0, msg |-> NullStr, job_id |-> 0, status |-> NullStr,
           domain |-> NullStr, score |-> Absent, pages_done |-> Absent,
           pages_found |-> Absent, error |-> AbsentStr, jobs |-> <<>>, summary |-> <<>>,
           rows |-> <<>>, columns |-> <<>>, count |-> Absent]

\* The arguments of a read request, as the caller gave them.
NoArgs == [limit |-> Absent, offset |-> Absent, problems_only |-> FALSE,
           severity |-> NullStr, status |-> NullStr, sql |-> NullStr]

\* The local state of a request: pc is the suspension point it waits at,
\* job the row pollJob selected, cuCalls / ingestCalls the calls it made to
\* the container / to ingestResults, caught whether pollJob's catch ran,
\* token the token it presented, sqlRuns how often it ran caller-given SQL.
IdleReq == [op |-> "idle", pc |-> "idle", jobId |-> 0, url |-> "",
            job |-> NoJob, snapIdx |-> 0, errmsg |-> NullStr,
            cuCalls |-> 0, ingestCalls |-> 0, caught |-> FALSE,
            token |-> NullStr, args |-> NoArgs, sqlRuns |-> 0]

\* env.API_KEY, the secret the worker is deployed with.
API_KEY == "s3cret"

\* An answered request: site is the return or throw statement it left the
\* business logic by, resp the answer of each front end to that outcome,
\* secret the env.API_KEY the worker that answered is deployed with.
NoAnswer == [op |-> "idle", jobId |-> 0, cuCalls |-> 0, ingestCalls |-> 0, caught |-> FALSE,
             token |-> NullStr, args |-> NoArgs, sqlRuns |-> 0,
             site |-> "none", resp |-> [a \in Adapters |-> NoResp], secret |-> API_KEY]

IdleContainer == [state |-> "none", starts |-> 0, results |-> NoResults,
                  pages_done |-> 0, pages_found |-> 0]

Init ==
    /\ crawl_jobs = <<>>
    /\ page_audits = <<>>
    /\ site_issues = <<>>
    /\ site_summaries = <<>>
    /\ snapshots = {}
    /\ container = [j \in JobIds |-> IdleContainer]
    /\ req = [r \in Req |-> IdleReq]
    /\ last = NoAnswer
    /\ ingests = [j \in JobIds |-> 0]
    /\ faults = 0

\* ------------------------------------------------------------------------
\* Adapters: how each front end renders what the business logic returned
\* or threw.  site names the return or throw statement the logic left by.
\* ------------------------------------------------------------------------
JsonResp(code, body) == [body EXCEPT !.class = "json", !.http = code]

JsonError(code, message) == [NoResp EXCEPT !.class = "json", !.http = code, !.msg = message]

Uncaught(message) == [NoResp EXCEPT !.class = "uncaught", !.msg = message]

\* fetch of the dual-role worker: every throw of the shared logic ends in
\* the catch of the route block and is answered 500.
RestResponse(op, site, message, body) ==
    CASE site = "ok" -> JsonResp(IF op = "submit" THEN 201 ELSE 200, body)
      [] site = "missing_url" -> JsonError(400, "url is required")
      [] OTHER -> JsonError(500, message)

\* MCP tool handlers: a result renders as text, a throw leaves the handler
\* to the MCP server, which answers with an error result.  submit_crawl
\* has no check for an empty url: new URL("") throws.
McpResponse(op, site, message, body) ==
    CASE site = "ok" -> [body EXCEPT !.class = "tool"]
      [] site = "missing_url" -> [NoResp EXCEPT !.class = "tool_error", !.msg = "Invalid URL"]
      [] OTHER -> [NoResp EXCEPT !.class = "tool_error", !.msg = message]

\* The standalone gateway: handlers answer 502 / 404 themselves; fetch
\* returns the handler's promise without awaiting it, so a throw inside a
\* handler is not caught by fetch's try/catch.
GatewayResponse(op, site, message, body) ==
    CASE site = "ok" -> JsonResp(IF op = "submit" THEN 201 ELSE 200, body)
      [] site = "missing_url" -> JsonError(400, "url is required")
      [] site = "start_failed" ->
            [JsonError(502, "Failed to start crawler container") EXCEPT !.job_id = body.job_id]
      [] site = "not_found" -> JsonError(404, "Job not found")
      [] site = "query_rejected" -> JsonError(403, "Only SELECT queries allowed")
      [] OTHER -> Uncaught(message)

Render(adapter, op, site, message, body) ==
    CASE adapter = "rest" -> RestResponse(op, site, message, body)
      [] adapter = "mcp" -> McpResponse(op, site, message, body)
      [] OTHER -> GatewayResponse(op, site, message, body)

\* ------------------------------------------------------------------------
\* The token check in front of the routes
\* ------------------------------------------------------------------------
\* The token a request presents: the secret, another string, or none
\* (no Authorization header, a bare /mcp or /sse path).
Tokens == {API_KEY, "wrong", ""}

\* env.API_KEY of a worker deployed without the secret.
Unset == "UNDEFINED"

\* bearerToken !== env.API_KEY (both workers): no string is identical to
\* an unset secret; the empty string is identical to an empty secret.
HeaderAdmits(key, token) == key # Unset /\ token = key

\* !env.API_KEY || token !== env.API_KEY
PathAdmits(key, token) == key # Unset /\ key # "" /\ token = key

\* Variant of RestAuthorized: a request without a token is let through.
RestAuthorizedOrMissing(token) == token = "" \/ token = API_KEY

\* if (bearerToken !== env.API_KEY) return 401
RestAuthorized(token) == HeaderAdmits(API_KEY, token)

\* if (!env.API_KEY || token !== env.API_KEY) return 403
McpAuthorized(token) == PathAdmits(API_KEY, token)

\* if (token !== env.API_KEY) return 401
GatewayAuthorized(token) == HeaderAdmits(API_KEY, token)

Authorized(adapter, token) ==
    CASE adapter = "rest" -> RestAuthorized(token)
      [] adapter = "mcp" -> McpAuthorized(token)
      [] OTHER -> GatewayAuthorized(token)

AuthReject(adapter) ==
    IF adapter = "mcp" THEN JsonError(403, "forbidden") ELSE JsonError(401, "Unauthorized")

\* The tokens with which a request reaches the business logic.
AdmittedTokens == {t \in Tokens : \E a \in Adapters : Authorized(a, t)}

\* What front end a answers to request q: the token check comes first.
Respond(a, q, site, message, body) ==
    IF Authorized(a, q.token) THEN Render(a, q.op, site, message, body) ELSE AuthReject(a)

\* A request whose token no front end accepts is answered before the
\* route is looked at.
Unauthorized ==
    /\ \E tok \in Tokens \ AdmittedTokens :
          last' = [NoAnswer EXCEPT !.op = "rejected", !.token = tok, !.site = "unauthorized",
                                   !.resp = [a \in Adapters |-> AuthReject(a)]]
    /\ UNCHANGED <<store, container, req, ingests, faults>>

\* GET /health: the dual-role worker answers it before the token check;
\* the standalone gateway has no such route.
HealthResponse(adapter, token) ==
    IF adapter = "gateway"
    THEN IF GatewayAuthorized(token) THEN JsonError(404, "Not found") ELSE AuthReject(adapter)
    ELSE JsonResp(200, [NoResp EXCEPT !.status = "healthy"])

\* The health probe comes without a token.
HealthTokens == {""}

Health ==
    /\ \E tok \in HealthTokens :
          last' = [NoAnswer EXCEPT !.op = "health", !.token = tok, !.site = "ok",
                                   !.resp = [a \in Adapters |-> HealthResponse(a, tok)]]
    /\ UNCHANGED <<store, container, req, ingests, faults>>

\* The request q in slot r leaves the business logic at `site` and is
\* answered; the slot is free again.
Finish(r, q, site, message, body) ==
    /\ last' = [op |-> q.op, jobId |-> q.jobId, cuCalls |-> q.cuCalls,
                ingestCalls |-> q.ingestCalls, caught |-> q.caught,
                token |-> q.token, args |-> q.args, sqlRuns |-> q.sqlRuns, site |-> site,
                secret |-> API_KEY,
                resp |-> [a \in Adapters |-> Respond(a, q, site, message, body)]]
    /\ req' = [req EXCEPT ![r] = IdleReq]

\* The same for an operation whose three front ends do not share the code
\* that computes the outcome: out[a] is the site, message and body of
\* front end a.
FinishEach(r, q, site, out) ==
    /\ last' = [op |-> q.op, jobId |-> q.jobId, cuCalls |-> q.cuCalls,
                ingestCalls |-> q.ingestCalls, caught |-> q.caught,
                token |-> q.token, args |-> q.args, sqlRuns |-> q.sqlRuns, site |-> site,
                secret |-> API_KEY,
                resp |-> [a \in Adapters |->
                             Respond(a, q, out[a].site, out[a].message, out[a].body)]]
    /\ req' = [req EXCEPT ![r] = IdleReq]

\* The request in slot r goes on as q to its next suspension point.
Continue(r, q) ==
    /\ req' = [req EXCEPT ![r] = q]
    /\ UNCHANGED last

\* A new request takes the lowest slot that has no request in flight.
Free(r) ==
    /\ req[r].pc = "idle"
    /\ \A q \in Req : q < r => req[q].pc # "idle"

\* A store write, a bucket put or a container call goes wrong.
Fault == faults < MaxFaults /\ faults' = faults + 1

NoFault == faults' = faults

\* ------------------------------------------------------------------------
\* submitCrawl / handleSubmitCrawl
\* ------------------------------------------------------------------------
\* Variant of NewJobRow: the row is inserted as running.
NewJobRowRunning(id, url, maxPages, maxDepth) ==
    [id |-> id, domain |-> Hostname(url), start_url |-> url,
     config |-> [max_pages |-> maxPages, max_depth |-> maxDepth],
     status |-> "running", pages_found |-> 0, pages_done |-> 0,
     score |-> NullInt, error |-> NullStr,
     created_at |-> id, started_at |-> NullInt, completed_at |-> NullInt]

NewJobRow(id, url, maxPages, maxDepth) ==
    [id |-> id, domain |-> Hostname(url), start_url |-> url,
     config |-> [max_pages |-> maxPages, max_depth |-> maxDepth],
     status |-> "queued", pages_found |-> 0, pages_done |-> 0,
     score |-> NullInt, error |-> NullStr,
     created_at |-> id, started_at |-> NullInt, completed_at |-> NullInt]

\* Argument checks, new URL(url), crypto.randomUUID() and the INSERT of the
\* queued row (the first await of submit).
SubmitInsert(r) ==
    /\ Free(r)
    /\ \E tok \in AdmittedTokens, url \in Urls, mp \in MaxPagesArgs, md \in MaxDepthArgs :
        LET jobId == Len(crawl_jobs) + 1
            pages == Coalesce(mp, DefaultMaxPages)
            depth == Coalesce(md, DefaultMaxDepth)
            q == [IdleReq EXCEPT !.op = "submit", !.url = url, !.token = tok]
        IN  IF url = ""
            THEN /\ Finish(r, q, "missing_url", "url is required", NoResp)
                 /\ UNCHANGED <<crawl_jobs, faults>>
            ELSE IF ~WellFormed(url)
            THEN /\ Finish(r, q, "invalid_url", "Invalid URL", NoResp)
                 /\ UNCHANGED <<crawl_jobs, faults>>
            ELSE /\ jobId \in JobIds
                 /\ \/ /\ NoFault
                       /\ crawl_jobs' = Append(crawl_jobs, NewJobRow(jobId, url, pages, depth))
                       /\ Continue(r, [q EXCEPT !.pc = "start", !.jobId = jobId])
                    \/ /\ Fault
                       /\ Finish(r, q, "insert_failed", "D1_ERROR", NoResp)
                       /\ UNCHANGED crawl_jobs
    /\ UNCHANGED <<page_audits, site_issues, site_summaries, snapshots, container, ingests>>

\* The container after it accepted the start call: while it crawls, its
\* status answer carries the progress made (here one page done of two
\* found), which no row of the store holds.
Crawling(starts) ==
    [IdleContainer EXCEPT !.state = "crawling", !.starts = starts,
                          !.pages_done = 1, !.pages_found = 2]

\* Variant of SubmitStart: a start call that fails is made a second time.
SubmitStartRetried(r) ==
    /\ req[r].pc = "start"
    /\ LET j == req[r].jobId IN
       \/ /\ NoFault
          /\ container' = [container EXCEPT ![j] = Crawling(container[j].starts + 1)]
          /\ Continue(r, [req[r] EXCEPT !.cuCalls = @ + 1, !.pc = "mark_running"])
       \/ /\ Fault
          /\ \E message \in {"Container rejected start", "fetch failed"} :
                Continue(r, [req[r] EXCEPT !.cuCalls = @ + 2, !.pc = "mark_failed",
                                           !.errmsg = message])
          /\ container' = [container EXCEPT ![j].starts = @ + 2]
    /\ UNCHANGED <<store, ingests>>

\* container.fetch("http://container/start"): accepted, answered non-2xx,
\* or the call throws.
SubmitStart(r) ==
    /\ req[r].pc = "start"
    /\ LET j == req[r].jobId IN
       \/ /\ NoFault
          /\ container' = [container EXCEPT ![j] = Crawling(container[j].starts + 1)]
          /\ Continue(r, [req[r] EXCEPT !.cuCalls = @ + 1, !.pc = "mark_running"])
       \/ /\ Fault
          /\ \E message \in {"Container rejected start", "fetch failed"} :
                Continue(r, [req[r] EXCEPT !.cuCalls = @ + 1, !.pc = "mark_failed",
                                           !.errmsg = message])
          /\ container' = [container EXCEPT ![j].starts = @ + 1]
    /\ UNCHANGED <<store, ingests>>

\* UPDATE crawl_jobs SET status = 'running', started_at = now WHERE id = ?
\* A failure of the update lands in the same catch as a failed start.
SubmitMarkRunning(r) ==
    /\ req[r].pc = "mark_running"
    /\ LET j == req[r].jobId IN
       \/ /\ NoFault
          /\ crawl_jobs' = [crawl_jobs EXCEPT ![j].status = "running", ![j].started_at = Now]
          /\ Finish(r, req[r], "ok", NullStr,
                         [NoResp EXCEPT !.job_id = j, !.status = "running",
                                        !.domain = Hostname(req[r].url)])
       \/ /\ Fault
          /\ Continue(r, [req[r] EXCEPT !.pc = "mark_failed", !.errmsg = "D1_ERROR"])
          /\ UNCHANGED crawl_jobs
    /\ UNCHANGED <<page_audits, site_issues, site_summaries, snapshots, container, ingests>>

\* catch: UPDATE crawl_jobs SET status = 'failed', error = ? WHERE id = ?
\* then report the failed start; a failure of this update leaves the catch
\* as an exception.
SubmitMarkFailed(r) ==
    /\ req[r].pc = "mark_failed"
    /\ LET j == req[r].jobId IN
       \/ /\ NoFault
          /\ crawl_jobs' = [crawl_jobs EXCEPT ![j].status = "failed",
                               ![j].error = "Container start failed"]
          /\ Finish(r, req[r], "start_failed",
                         "Failed to start crawler container", [NoResp EXCEPT !.job_id = j])
       \/ /\ Fault
          /\ Finish(r, req[r], "update_failed", "D1_ERROR", NoResp)
          /\ UNCHANGED crawl_jobs
    /\ UNCHANGED <<page_audits, site_issues, site_summaries, snapshots, container, ingests>>

\* ------------------------------------------------------------------------
\* The crawler container of a job (opaque to the worker)
\* ------------------------------------------------------------------------
\* A started crawl ends: the container then reports completed with a result
\* payload, or failed.
ContainerFinish(j) ==
    /\ container[j].state = "crawling"
    /\ \/ \E res \in Payloads :
            container' = [container EXCEPT ![j].state = "completed", ![j].results = res]
       \/ container' = [container EXCEPT ![j].state = "failed"]
    /\ UNCHANGED <<store, req, last, ingests, faults>>

\* ------------------------------------------------------------------------
\* pollJob / handlePollStatus
\* ------------------------------------------------------------------------
\* SELECT id, status, score, pages_found, pages_done, error FROM crawl_jobs
PollRow(row) ==
    [id |-> row.id, status |-> row.status, score |-> row.score,
     pages_found |-> row.pages_found, pages_done |-> row.pages_done, error |-> row.error]

\* json(job) / return job: the selected row as the response body
RowBody(job) ==
    [NoResp EXCEPT !.job_id = job.id, !.status = job.status, !.score = job.score,
                   !.pages_found = job.pages_found, !.pages_done = job.pages_done,
                   !.error = job.error]

\* Variant of IsTerminal: only completed counts as terminal.
IsTerminalCompletedOnly(status) == status = "completed"

IsTerminal(status) == status = "completed" \/ status = "failed"

\* The ids a caller asks for: the ids of the store and one unknown id.
PollIds == 1..(MaxJobs + 1)

\* The SELECT of the job row, the not-found check and the terminal check.
PollRead(r) ==
    /\ Free(r)
    /\ \E tok \in AdmittedTokens, j \in PollIds :
        LET q == [IdleReq EXCEPT !.op = "poll", !.jobId = j, !.token = tok] IN
        IF j \notin DOMAIN crawl_jobs
        THEN Finish(r, q, "not_found", "Job not found", NoResp)
        ELSE LET job == PollRow(crawl_jobs[j]) IN
             IF IsTerminal(job.status)
             THEN Finish(r, q, "ok", NullStr, RowBody(job))
             ELSE Continue(r, [q EXCEPT !.pc = "status", !.job = job])
    /\ UNCHANGED <<store, container, ingests, faults>>

\* The payload of the status answer the request is ingesting.
Results(r) == container[req[r].jobId].results

\* Variant of ReportsResults: a completed report is not taken as one.
ReportsResultsNever(c) == FALSE

\* containerStatus.status === "completed" && containerStatus.results
ReportsResults(c) == c.state = "completed"

\* Variant of PollUnreachable: an unreachable container marks the job failed.
PollUnreachableMarksFailed(r, q, thrown) ==
    /\ Finish(r, [q EXCEPT !.caught = thrown], "ok", NullStr, RowBody(q.job))
    /\ crawl_jobs' = [crawl_jobs EXCEPT ![q.jobId].status = "failed"]
    /\ UNCHANGED <<page_audits, site_issues, site_summaries, snapshots, ingests>>

\* The status call threw (the catch drops the exception) or was answered
\* non-2xx (resp.ok is false): pollJob falls through to `return job`.
PollUnreachable(r, q, thrown) ==
    /\ Finish(r, [q EXCEPT !.caught = thrown], "ok", NullStr, RowBody(q.job))
    /\ UNCHANGED <<store, ingests>>

\* Variant of PollProgress: the reported progress is written to the job row.
PollProgressPersisted(r, q, c) ==
    /\ Finish(r, q, "ok", NullStr,
              [NoResp EXCEPT !.job_id = q.jobId, !.status = "running",
                             !.pages_done = c.pages_done, !.pages_found = c.pages_found])
    /\ crawl_jobs' = [crawl_jobs EXCEPT ![q.jobId].pages_done = c.pages_done,
                                        ![q.jobId].pages_found = c.pages_found]
    /\ UNCHANGED <<page_audits, site_issues, site_summaries, snapshots, ingests>>

\* The 2xx answer does not carry a completed result: the running snapshot
\* with the container's progress, nothing is written.
PollProgress(r, q, c) ==
    /\ Finish(r, q, "ok", NullStr,
              [NoResp EXCEPT !.job_id = q.jobId, !.status = "running",
                             !.pages_done = c.pages_done, !.pages_found = c.pages_found])
    /\ UNCHANGED <<store, ingests>>

\* container.fetch("http://container/status") and what follows up to the
\* next await: the call throws, is answered non-2xx, or is answered 2xx
\* with the container's status.
PollStatus(r) ==
    /\ req[r].pc = "status"
    /\ LET j == req[r].jobId
           c == container[j]
           q == [req[r] EXCEPT !.cuCalls = @ + 1]
       IN  \/ /\ Fault
              /\ \E thrown \in BOOLEAN : PollUnreachable(r, q, thrown)
           \/ /\ NoFault
              /\ IF ReportsResults(c)
                 THEN /\ ingests[j] < MaxIngests
                      /\ ingests' = [ingests EXCEPT ![j] = @ + 1]
                      /\ Continue(r, [q EXCEPT !.pc = "ing_domain", !.ingestCalls = @ + 1])
                      /\ UNCHANGED store
                 ELSE PollProgress(r, q, c)
    /\ UNCHANGED container

\* ------------------------------------------------------------------------
\* ingestResults (called inside pollJob's try block)
\* ------------------------------------------------------------------------
\* The next section of the payload that has rows to write.
AfterSummary(res) == IF Len(res.snapshots) > 0 THEN "ing_snapshot" ELSE "ing_mark"

\* Variant of AfterIssues: the summary insert runs whether or not the
\* payload has a summary.
AfterIssuesAlwaysSummary(res) == "ing_summary"

AfterIssues(res) == IF res.summary.present THEN "ing_summary" ELSE AfterSummary(res)

AfterPages(res) == IF Len(res.issues) > 0 THEN "ing_issues" ELSE AfterIssues(res)

\* Variant of AfterDomain: the page batch is skipped.
AfterDomainSkipsPages(res) == AfterPages(res)

AfterDomain(res) == IF Len(res.pages) > 0 THEN "ing_pages" ELSE AfterPages(res)

\* b ? 1 : 0
BoolToInt(b) == IF b THEN 1 ELSE 0

PageRow(jobId, domain, p) ==
    [job_id |-> jobId, url |-> p.url, domain |-> domain,
     title_status |-> p.title_status, meta_desc_status |-> p.meta_desc_status,
     h1_count |-> Coalesce(p.h1_count, 0), has_viewport |-> BoolToInt(p.has_viewport),
     mixed_content |-> BoolToInt(p.mixed_content)]

IssueRow(jobId, domain, i) ==
    [job_id |-> jobId, domain |-> domain, issue_type |-> i.issue_type, severity |-> i.severity]

SummaryRow(jobId, domain, s) ==
    [job_id |-> jobId, domain |-> domain, score |-> Coalesce(s.score, 0)]

\* Variant of SummaryScoreOrNull: the score is not taken from the payload.
SummaryScoreDropped(res) == NullInt

\* results.summary?.score ?? null
SummaryScoreOrNull(res) ==
    IF res.summary.present THEN Coalesce(res.summary.score, NullInt) ELSE NullInt

\* results.summary?.score
SummaryScore(res) == IF res.summary.present THEN res.summary.score ELSE Absent

\* Variant of PollCatch: the poll is answered completed all the same.
PollCatchAnswersCompleted(r) ==
    Finish(r, [req[r] EXCEPT !.caught = TRUE], "ok", NullStr,
           [RowBody(req[r].job) EXCEPT !.status = "completed"])

\* pollJob's catch: the exception is dropped and the row selected at the
\* start of the poll is returned.
PollCatch(r) ==
    Finish(r, [req[r] EXCEPT !.caught = TRUE], "ok", NullStr, RowBody(req[r].job))

\* The domain column of a job never changes after the INSERT, so the value
\* ingestResults selected is the value in the table.
JobDomain(j) == crawl_jobs[j].domain

\* Variant of IngestDomain: the rows an earlier ingestion of the job left
\* are deleted first.
IngestDomainCleaning(r) ==
    /\ req[r].pc = "ing_domain"
    /\ LET Other(row) == row.job_id # req[r].jobId IN
       /\ page_audits' = SelectSeq(page_audits, Other)
       /\ site_issues' = SelectSeq(site_issues, Other)
       /\ site_summaries' = SelectSeq(site_summaries, Other)
    /\ Continue(r, [req[r] EXCEPT !.pc = AfterDomain(Results(r))])
    /\ UNCHANGED <<crawl_jobs, snapshots, container, ingests, faults>>

\* SELECT domain FROM crawl_jobs WHERE id = ?
IngestDomain(r) ==
    /\ req[r].pc = "ing_domain"
    /\ Continue(r, [req[r] EXCEPT !.pc = AfterDomain(Results(r))])
    /\ UNCHANGED <<store, container, ingests, faults>>

\* env.DB.batch of the page_audits INSERTs
IngestPages(r) ==
    /\ req[r].pc = "ing_pages"
    /\ LET res == Results(r)
           j == req[r].jobId
       IN  \/ /\ NoFault
              /\ page_audits' = page_audits \o
                     [i \in 1..Len(res.pages) |-> PageRow(j, JobDomain(j), res.pages[i])]
              /\ Continue(r, [req[r] EXCEPT !.pc = AfterPages(res)])
           \/ /\ Fault
              /\ PollCatch(r)
              /\ UNCHANGED page_audits
    /\ UNCHANGED <<crawl_jobs, site_issues, site_summaries, snapshots, container, ingests>>

\* env.DB.batch of the site_issues INSERTs
IngestIssues(r) ==
    /\ req[r].pc = "ing_issues"
    /\ LET res == Results(r)
           j == req[r].jobId
       IN  \/ /\ NoFault
              /\ site_issues' = site_issues \o
                     [i \in 1..Len(res.issues) |-> IssueRow(j, JobDomain(j), res.issues[i])]
              /\ Continue(r, [req[r] EXCEPT !.pc = AfterIssues(res)])
           \/ /\ Fault
              /\ PollCatch(r)
              /\ UNCHANGED site_issues
    /\ UNCHANGED <<crawl_jobs, page_audits, site_summaries, snapshots, container, ingests>>

\* INSERT INTO site_summaries
IngestSummary(r) ==
    /\ req[r].pc = "ing_summary"
    /\ LET res == Results(r)
           j == req[r].jobId
       IN  \/ /\ NoFault
              /\ site_summaries' = Append(site_summaries, SummaryRow(j, JobDomain(j), res.summary))
              /\ Continue(r, [req[r] EXCEPT !.pc = AfterSummary(res)])
           \/ /\ Fault
              /\ PollCatch(r)
              /\ UNCHANGED site_summaries
    /\ UNCHANGED <<crawl_jobs, page_audits, site_issues, snapshots, container, ingests>>

\* env.SNAPSHOTS.put of the next snapshot of the loop; the key is
\* jobId/encodeURIComponent(url).html
IngestSnapshot(r) ==
    /\ req[r].pc = "ing_snapshot"
    /\ LET res == Results(r)
           k == req[r].snapIdx + 1
       IN  \/ /\ NoFault
              /\ snapshots' = snapshots \cup {<<req[r].jobId, res.snapshots[k]>>}
              /\ Continue(r, [req[r] EXCEPT !.snapIdx = k,
                       !.pc = IF k < Len(res.snapshots) THEN "ing_snapshot" ELSE "ing_mark"])
           \/ /\ Fault
              /\ PollCatch(r)
              /\ UNCHANGED snapshots
    /\ UNCHANGED <<crawl_jobs, page_audits, site_issues, site_summaries, container, ingests>>

\* UPDATE crawl_jobs SET status = 'completed', pages_done = ?, score = ?,
\* completed_at = now WHERE id = ?   and then pollJob's completed snapshot
IngestMark(r) ==
    /\ req[r].pc = "ing_mark"
    /\ LET res == Results(r)
           j == req[r].jobId
       IN  \/ /\ NoFault
              /\ crawl_jobs' = [crawl_jobs EXCEPT ![j].status = "completed",
                                   ![j].pages_done = Len(res.pages),
                                   ![j].score = SummaryScoreOrNull(res),
                                   ![j].completed_at = Now]
              /\ Finish(r, req[r], "ok", NullStr,
                             [NoResp EXCEPT !.job_id = j, !.status = "completed",
                                            !.score = SummaryScore(res),
                                            !.pages_done = Len(res.pages)])
           \/ /\ Fault
              /\ PollCatch(r)
              /\ UNCHANGED crawl_jobs
    /\ UNCHANGED <<page_audits, site_issues, site_summaries, snapshots, container, ingests>>

\* ------------------------------------------------------------------------
\* listJobs / handleListJobs, getJob / handleGetJob
\* ------------------------------------------------------------------------
Min(a, b) == IF a < b THEN a ELSE b

Reverse(s) == [i \in 1..Len(s) |-> s[Len(s) + 1 - i]]

\* LIMIT n of SQLite: a negative n is no limit.
Limit(s, n) == IF n < 0 THEN s ELSE SubSeq(s, 1, Min(n, Len(s)))

ListRow(row) ==
    [id |-> row.id, domain |-> row.domain, start_url |-> row.start_url, status |-> row.status,
     score |-> row.score, pages_found |-> row.pages_found, pages_done |-> row.pages_done,
     created_at |-> row.created_at, completed_at |-> row.completed_at]

\* Variant of OrDefault: an absent limit is 0.
OrDefaultZero(x, d) == IF x = Absent THEN 0 ELSE x

\* limit || 20: an absent or zero limit is the default
OrDefault(x, d) == IF x = Absent \/ x = 0 THEN d ELSE x

\* A filter that is NullStr is not applied.  created_at is the insertion
\* order, so ORDER BY created_at DESC is the table reversed.
listJobs(domain, status, limit) ==
    LET maxLimit == Min(OrDefault(limit, DefaultListLimit), MaxListLimit)
        Match(row) == /\ (domain # NullStr => row.domain = domain)
                      /\ (status # NullStr => row.status = status)
        rows == SelectSeq(Reverse(crawl_jobs), Match)
        shown == Limit(rows, maxLimit)
    IN  [i \in 1..Len(shown) |-> ListRow(shown[i])]

NoSummaryRow == [job_id |-> 0, domain |-> NullStr, score |-> NullInt]

\* SELECT * FROM site_summaries WHERE job_id = ?  .first()
FirstSummary(jobId) ==
    LET Of(row) == row.job_id = jobId
        rows == SelectSeq(site_summaries, Of)
    IN  IF Len(rows) = 0 THEN NoSummaryRow ELSE rows[1]

DomainArgs == {NullStr}
StatusArgs == {NullStr, "failed"}
LimitArgs == {Absent}

ListJobs(r) ==
    /\ Free(r)
    /\ \E tok \in AdmittedTokens, d \in DomainArgs, st \in StatusArgs, lim \in LimitArgs :
        Finish(r, [IdleReq EXCEPT !.op = "list", !.token = tok], "ok", NullStr,
               [NoResp EXCEPT !.jobs = listJobs(d, st, lim)])
    /\ UNCHANGED <<store, container, ingests, faults>>

\* getJob: SELECT * FROM crawl_jobs WHERE id = ? and the first summary row
getJob(jobId) ==
    IF jobId \notin DOMAIN crawl_jobs
    THEN [site |-> "not_found", body |-> NoResp]
    ELSE [site |-> "ok",
          body |-> [RowBody(PollRow(crawl_jobs[jobId])) EXCEPT
                       !.domain = crawl_jobs[jobId].domain,
                       !.summary = <<FirstSummary(jobId)>>]]

GetJob(r) ==
    /\ Free(r)
    /\ \E tok \in AdmittedTokens, j \in PollIds :
        LET q == [IdleReq EXCEPT !.op = "get", !.jobId = j, !.token = tok]
            g == getJob(j)
        IN  Finish(r, q, g.site, IF g.site = "ok" THEN NullStr ELSE "Job not found", g.body)
    /\ UNCHANGED <<store, container, ingests, faults>>

\* ------------------------------------------------------------------------
\* Read operations with caller-given limits: listJobs / handleListJobs,
\* getPages / handleGetPages, getIssues / handleGetIssues
\* ------------------------------------------------------------------------
\* OFFSET n of SQLite: a negative n is no offset.
Offset(s, n) == IF n <= 0 THEN s ELSE SubSeq(s, Min(n, Len(s)) + 1, Len(s))

\* parseInt(url.searchParams.get(name) || "d") of the standalone gateway:
\* only an absent parameter is the default.
ParseOr(x, d) == IF x = Absent THEN d ELSE x

\* handleListJobs of the standalone gateway: the query of listJobs with the
\* gateway's reading of the limit parameter.
handleListJobs(domain, status, limit) ==
    LET maxLimit == Min(ParseOr(limit, DefaultListLimit), MaxListLimit)
        Match(row) == /\ (domain # NullStr => row.domain = domain)
                      /\ (status # NullStr => row.status = status)
        rows == SelectSeq(Reverse(crawl_jobs), Match)
        shown == Limit(rows, maxLimit)
    IN  [i \in 1..Len(shown) |-> ListRow(shown[i])]

\* The limits a caller passes: none, 0, a negative one, a small one, one
\* above the maximum.
ListLimits == {Absent, 0, -5, DefaultListLimit - 1, 5 * MaxListLimit}

\* What each front end answers to an outcome all three share but for the
\* body.
EachBody(bodyOf) == [a \in Adapters |-> [site |-> "ok", message |-> NullStr, body |-> bodyOf[a]]]

\* GET /jobs?limit= and the list_jobs tool with a limit argument.
ListJobsLimit(r) ==
    /\ Free(r)
    /\ \E tok \in AdmittedTokens, st \in StatusArgs, lim \in ListLimits :
        LET q == [IdleReq EXCEPT !.op = "list", !.token = tok,
                                 !.args = [NoArgs EXCEPT !.limit = lim, !.status = st]]
            shared == [NoResp EXCEPT !.jobs = listJobs(NullStr, st, lim)]
            own == [NoResp EXCEPT !.jobs = handleListJobs(NullStr, st, lim)]
        IN  FinishEach(r, q, "ok",
                       EachBody([a \in Adapters |-> IF a = "gateway" THEN own ELSE shared]))
    /\ UNCHANGED <<store, container, ingests, faults>>

\* The URLs of page rows in the model, in the order ORDER BY url gives.
UrlsInOrder == <<"https://example.com/", "https://example.com/a", "https://example.com/b">>

\* The columns of page_audits the SELECT of getPages lists; the position of
\* a row in the table stands for its id.
PageOut(k) ==
    [id |-> k, url |-> page_audits[k].url, domain |-> page_audits[k].domain,
     title_status |-> page_audits[k].title_status,
     meta_desc_status |-> page_audits[k].meta_desc_status,
     h1_count |-> page_audits[k].h1_count, mixed_content |-> page_audits[k].mixed_content]

\* Variant of ProblemPage: the viewport column is not looked at.
ProblemPageNoViewport(row) ==
    \/ row.title_status = "fail" \/ row.meta_desc_status = "fail"
    \/ row.h1_count = 0 \/ row.mixed_content = 1

\* title_status = 'fail' OR meta_desc_status = 'fail' OR h1_count = 0
\* OR has_viewport = 0 OR mixed_content = 1
ProblemPage(row) ==
    \/ row.title_status = "fail" \/ row.meta_desc_status = "fail"
    \/ row.h1_count = 0 \/ row.has_viewport = 0 \/ row.mixed_content = 1

\* SELECT ... FROM page_audits WHERE job_id = ? [AND problems]
\* ORDER BY url LIMIT ? OFFSET ?
PagesQuery(jobId, problemsOnly, maxLimit, off) ==
    LET Match(k) == /\ page_audits[k].job_id = jobId
                    /\ problemsOnly => ProblemPage(page_audits[k])
        ids == SelectSeq([k \in 1..Len(page_audits) |-> k], Match)
        At1(k) == page_audits[k].url = UrlsInOrder[1]
        At2(k) == page_audits[k].url = UrlsInOrder[2]
        At3(k) == page_audits[k].url = UrlsInOrder[3]
        sorted == SelectSeq(ids, At1) \o SelectSeq(ids, At2) \o SelectSeq(ids, At3)
        shown == Limit(Offset(sorted, off), maxLimit)
    IN  [i \in 1..Len(shown) |-> PageOut(shown[i])]

\* Variant of getPages: the limit is not capped.
getPagesNoCap(jobId, problemsOnly, limit, offset) ==
    PagesQuery(jobId, problemsOnly, OrDefault(limit, DefaultPageLimit), OrDefault(offset, 0))

\* getPages of the dual-role worker: Math.min(limit || 50, 200), offset || 0
getPages(jobId, problemsOnly, limit, offset) ==
    PagesQuery(jobId, problemsOnly,
               Min(OrDefault(limit, DefaultPageLimit), MaxPageLimit), OrDefault(offset, 0))

\* handleGetPages of the standalone gateway
handleGetPages(jobId, problemsOnly, limit, offset) ==
    PagesQuery(jobId, problemsOnly,
               Min(ParseOr(limit, DefaultPageLimit), MaxPageLimit), ParseOr(offset, 0))

PageLimits == {Absent, 0, 2, 5 * MaxPageLimit}
PageOffsets == {Absent, 1}

\* GET /jobs/:id/pages and the get_pages tool
GetPages(r) ==
    /\ Free(r)
    /\ \E tok \in AdmittedTokens, j \in PollIds, po \in BOOLEAN,
          lim \in PageLimits, off \in PageOffsets :
        LET q == [IdleReq EXCEPT !.op = "pages", !.jobId = j, !.token = tok,
                                 !.args = [NoArgs EXCEPT !.limit = lim, !.offset = off,
                                                         !.problems_only = po]]
            shared == [NoResp EXCEPT !.rows = getPages(j, po, lim, off)]
            own == [NoResp EXCEPT !.rows = handleGetPages(j, po, lim, off)]
        IN  FinishEach(r, q, "ok",
                       EachBody([a \in Adapters |-> IF a = "gateway" THEN own ELSE shared]))
    /\ UNCHANGED <<store, container, ingests, faults>>

\* SELECT * FROM site_issues: the position of a row stands for its id.
IssueOut(k) ==
    [id |-> k, job_id |-> site_issues[k].job_id, domain |-> site_issues[k].domain,
     issue_type |-> site_issues[k].issue_type, severity |-> site_issues[k].severity]

\* Variant of SeverityRank: warning falls into the ELSE branch.
SeverityRankNoWarning(severity) == IF severity = "critical" THEN 0 ELSE 2

\* CASE severity WHEN 'critical' THEN 0 WHEN 'warning' THEN 1 ELSE 2 END
SeverityRank(severity) ==
    CASE severity = "critical" -> 0
      [] severity = "warning" -> 1
      [] OTHER -> 2

\* getIssues / handleGetIssues: a severity that is absent or empty is no
\* filter.  Rows of equal rank are in table order.
getIssues(jobId, severity) ==
    LET Match(k) == /\ site_issues[k].job_id = jobId
                    /\ (severity # NullStr /\ severity # "") => site_issues[k].severity = severity
        ids == SelectSeq([k \in 1..Len(site_issues) |-> k], Match)
        Rank0(k) == SeverityRank(site_issues[k].severity) = 0
        Rank1(k) == SeverityRank(site_issues[k].severity) = 1
        Rank2(k) == SeverityRank(site_issues[k].severity) = 2
        sorted == SelectSeq(ids, Rank0) \o SelectSeq(ids, Rank1) \o SelectSeq(ids, Rank2)
    IN  [i \in 1..Len(sorted) |-> IssueOut(sorted[i])]

\* The severities a caller passes: none, the three of the audit, and one
\* that is none of them.
SeverityArgs == {NullStr, "critical", "warning", "info", "bogus"}

\* severity: z.enum(["critical", "warning", "info"]).optional()
SeverityEnum == {"critical", "warning", "info"}

\* The argument schema of the get_issues tool: a call whose severity is
\* not of the enum is refused before the tool's callback runs.
IssuesArgsValid(severity) == severity = NullStr \/ severity \in SeverityEnum

\* GET /jobs/:id/issues and the get_issues tool.  The REST routes pass the
\* severity parameter to the query as it came.
GetIssues(r) ==
    /\ Free(r)
    /\ \E tok \in AdmittedTokens, j \in PollIds, sev \in SeverityArgs :
        LET q == [IdleReq EXCEPT !.op = "issues", !.jobId = j, !.token = tok,
                                 !.args = [NoArgs EXCEPT !.severity = sev]]
            found == [site |-> "ok", message |-> NullStr,
                      body |-> [NoResp EXCEPT !.rows = getIssues(j, sev)]]
            refused == [site |-> "invalid_args", message |-> "Invalid arguments for tool get_issues",
                        body |-> NoResp]
        IN  FinishEach(r, q, "ok",
                       [a \in Adapters |->
                           IF a = "mcp" /\ ~IssuesArgsValid(sev) THEN refused ELSE found])
    /\ UNCHANGED <<store, container, ingests, faults>>

\* ------------------------------------------------------------------------
\* queryDb / handleQuery
\* ------------------------------------------------------------------------
LowerCase == "abcdefghijklmnopqrstuvwxyz"
UpperCase == "ABCDEFGHIJKLMNOPQRSTUVWXYZ"

IsSpace(c) == c \in {" ", "\t", "\n", "\r"}

RECURSIVE TrimStart(_)
TrimStart(s) ==
    IF s = "" THEN s ELSE IF IsSpace(Head(s)) THEN TrimStart(Tail(s)) ELSE s

RECURSIVE TrimEnd(_)
TrimEnd(s) ==
    IF s = "" THEN s
    ELSE IF IsSpace(SubSeq(s, Len(s), Len(s))) THEN TrimEnd(SubSeq(s, 1, Len(s) - 1)) ELSE s

\* Variant of Trim: white space is removed at the end only.
TrimEndOnly(s) == TrimEnd(s)

\* String.prototype.trim
Trim(s) == TrimEnd(TrimStart(s))

UpperChar(c) ==
    LET at == {i \in 1..Len(LowerCase) : SubSeq(LowerCase, i, i) = c}
    IN  IF at = {} THEN c ELSE LET i == CHOOSE i \in at : TRUE IN SubSeq(UpperCase, i, i)

\* String.prototype.toUpperCase
RECURSIVE ToUpperCase(_)
ToUpperCase(s) == IF s = "" THEN s ELSE UpperChar(Head(s)) \o ToUpperCase(Tail(s))

\* String.prototype.startsWith
StartsWith(s, prefix) == Len(s) >= Len(prefix) /\ SubSeq(s, 1, Len(prefix)) = prefix

Forbidden == {"INSERT", "UPDATE", "DELETE", "DROP", "ALTER", "CREATE", "REPLACE"}

\* forbidden.some((kw) => sql.trim().toUpperCase().startsWith(kw))
Denied(sql) == \E kw \in Forbidden : StartsWith(ToUpperCase(Trim(sql)), kw)

\* The statements callers send, and what SQLite does to the rows of the
\* four tables when it runs one: "read" selects, "clear_issues" leaves
\* site_issues without rows, "relabel_issues" rewrites a column of every
\* row, "other" writes outside the rows the model keeps.
Statements ==
    {"SELECT id, severity FROM site_issues",
     "SELECT COUNT(*) AS n FROM crawl_jobs",
     "  \n\tdrop table site_issues",
     "Delete from site_issues",
     "uPdAtE site_issues SET severity = 'info'",
     "insert into notes VALUES ('x')",
     "REPLACE INTO notes VALUES ('x')",
     " create table notes (n TEXT)",
     "Alter table site_issues ADD COLUMN note TEXT",
     "WITH gone AS (SELECT 1) DELETE FROM site_issues",
     "/* tidy */ UPDATE site_issues SET severity = 'info'"}

SqlEffect(sql) ==
    CASE sql \in {"SELECT id, severity FROM site_issues",
                  "SELECT COUNT(*) AS n FROM crawl_jobs"} -> "read"
      [] sql \in {"  \n\tdrop table site_issues", "Delete from site_issues",
                  "WITH gone AS (SELECT 1) DELETE FROM site_issues"} -> "clear_issues"
      [] sql \in {"uPdAtE site_issues SET severity = 'info'",
                  "/* tidy */ UPDATE site_issues SET severity = 'info'"} -> "relabel_issues"
      [] OTHER -> "other"

\* env.DB.prepare(sql).all(): D1 runs whatever statement it is given.
Execute(sql) ==
    CASE SqlEffect(sql) = "clear_issues" ->
            /\ site_issues' = <<>>
            /\ UNCHANGED <<crawl_jobs, page_audits, site_summaries, snapshots>>
      [] SqlEffect(sql) = "relabel_issues" ->
            /\ site_issues' = [k \in 1..Len(site_issues) |->
                                  [site_issues[k] EXCEPT !.severity = "info"]]
            /\ UNCHANGED <<crawl_jobs, page_audits, site_summaries, snapshots>>
      [] OTHER -> UNCHANGED store

\* result.results of the statement: a row is the sequence of its fields,
\* each a pair of name and value, in the order of the select list.
QueryRows(sql) ==
    CASE sql = "SELECT id, severity FROM site_issues" ->
            [k \in 1..Len(site_issues) |->
                <<<<"id", k>>, <<"severity", site_issues[k].severity>>>>]
      [] sql = "SELECT COUNT(*) AS n FROM crawl_jobs" -> <<<<<<"n", Len(crawl_jobs)>>>>>>
      [] OTHER -> <<>>

\* Object.keys(row)
ObjectKeys(row) == [i \in 1..Len(row) |-> row[i][1]]

\* Variant of Columns: the columns of the site_issues query, whatever the
\* result is.
ColumnsOfIssues(results) == <<"id", "severity">>

\* result.results?.[0] ? Object.keys(result.results[0]) : []
Columns(results) == IF Len(results) > 0 THEN ObjectKeys(results[1]) ELSE <<>>

\* { columns, rows } of queryDb with the count the route adds; handleQuery
\* builds the same three fields.
QueryResult(results) ==
    [NoResp EXCEPT !.rows = results, !.columns = Columns(results), !.count = Len(results)]

\* GET /query?sql= and the query_db tool: the denylist, then the statement
\* is run as given.
QueryDb(r) ==
    /\ Free(r)
    /\ \E tok \in AdmittedTokens, sql \in Statements :
        LET q == [IdleReq EXCEPT !.op = "query", !.token = tok,
                                 !.args = [NoArgs EXCEPT !.sql = sql]]
        IN  IF Denied(sql)
            THEN /\ Finish(r, q, "query_rejected", "Only SELECT queries allowed", NoResp)
                 /\ UNCHANGED store
            ELSE /\ Execute(sql)
                 /\ Finish(r, [q EXCEPT !.sqlRuns = 1], "ok", NullStr,
                           QueryResult(QueryRows(sql)))
    /\ UNCHANGED <<container, ingests, faults>>

\* ------------------------------------------------------------------------
\* The system
\* ------------------------------------------------------------------------
\* The answer leaves the worker.  `last` holds an answer only in the state
\* in which the request returns, so a state predicate on `last` speaks of
\* the store at the time of the return.
Deliver ==
    /\ last # NoAnswer
    /\ last' = NoAnswer
    /\ UNCHANGED <<store, container, req, ingests, faults>>

Step ==
    \/ \E r \in Req : SubmitInsert(r)
    \/ \E r \in Req : SubmitStart(r)
    \/ \E r \in Req : SubmitMarkRunning(r)
    \/ \E r \in Req : SubmitMarkFailed(r)
    \/ \E j \in JobIds : ContainerFinish(j)
    \/ \E r \in Req : PollRead(r)
    \/ \E r \in Req : PollStatus(r)
    \/ \E r \in Req : IngestDomain(r)
    \/ \E r \in Req : IngestPages(r)
    \/ \E r \in Req : IngestIssues(r)
    \/ \E r \in Req : IngestSummary(r)
    \/ \E r \in Req : IngestSnapshot(r)
    \/ \E r \in Req : IngestMark(r)
    \/ \E r \in Req : ListJobs(r)
    \/ \E r \in Req : GetJob(r)
    \/ Unauthorized
    \/ Health

Next ==
    \/ last = NoAnswer /\ Step
    \/ Deliver

Spec == Init /\ [][Next]_vars

\* ------------------------------------------------------------------------
\* The read side: the read operations and the query against a store that
\* earlier submits and polls have filled
\* ------------------------------------------------------------------------
\* The row of job i after its submit returned: failed starts and running
\* jobs alternate; job 1 has been polled to completion.
StoredJob(i) ==
    LET url == IF i % 2 = 1 THEN "https://example.com" ELSE "https://shop.example.org:8443/a"
        row == NewJobRow(i, url, DefaultMaxPages, DefaultMaxDepth)
    IN  IF i = 1
        THEN [row EXCEPT !.status = "completed", !.started_at = Now, !.completed_at = Now,
                         !.score = 73]
        ELSE IF i % 2 = 1
        THEN [row EXCEPT !.status = "running", !.started_at = Now]
        ELSE [row EXCEPT !.status = "failed", !.error = "Container start failed"]

JobsTable(n) == [i \in 1..n |-> StoredJob(i)]

\* How many jobs the store holds: a few, more than the default limit of a
\* listing, more than its maximum.
JobCounts == {2, DefaultListLimit + 1, MaxListLimit + 1}

\* Pages a container reports: one problem each, or none.
PageVariants ==
    <<PageFail,
      [PageFail EXCEPT !.title_status = "pass"],
      [PageFail EXCEPT !.title_status = "pass", !.meta_desc_status = "fail"],
      [PageFail EXCEPT !.title_status = "pass", !.h1_count = Absent],
      [PageFail EXCEPT !.title_status = "pass", !.has_viewport = FALSE],
      [PageFail EXCEPT !.title_status = "pass", !.mixed_content = TRUE]>>

\* page_audits after the ingestion of n pages of job 1 and one of job 2.
PagesTable(n) ==
    [i \in 1..n |->
        PageRow(1, "example.com",
                [PageVariants[(i % Len(PageVariants)) + 1] EXCEPT
                    !.url = UrlsInOrder[(i % Len(UrlsInOrder)) + 1]])]
    \o <<PageRow(2, "shop.example.org", PageFail)>>

PageCounts == {Len(PageVariants), DefaultPageLimit + 1, MaxPageLimit + 1}

IssueOf(severity) == [issue_type |-> "missing_title", severity |-> severity]

\* site_issues after the ingestion of the issues of jobs 1 and 2.
IssueTables ==
    { <<>>,
      <<IssueRow(1, "example.com", IssueOf("info")),
        IssueRow(1, "example.com", IssueCritical),
        IssueRow(2, "shop.example.org", IssueCritical),
        IssueRow(1, "example.com", IssueOf("warning")),
        IssueRow(1, "example.com", IssueCritical)>> }

ReadInit ==
    /\ crawl_jobs \in {JobsTable(n) : n \in JobCounts}
    /\ page_audits \in {PagesTable(n) : n \in PageCounts}
    /\ site_issues \in IssueTables
    /\ site_summaries = <<SummaryRow(1, "example.com", Summary73)>>
    /\ snapshots = {}
    /\ container = [j \in JobIds |-> IdleContainer]
    /\ req = [r \in Req |-> IdleReq]
    /\ last = NoAnswer
    /\ ingests = [j \in JobIds |-> 0]
    /\ faults = 0

ReadStep ==
    \/ \E r \in Req : ListJobsLimit(r)
    \/ \E r \in Req : GetPages(r)
    \/ \E r \in Req : GetIssues(r)
    \/ \E r \in Req : QueryDb(r)

ReadNext ==
    \/ last = NoAnswer /\ ReadStep
    \/ Deliver

ReadSpec == ReadInit /\ [][ReadNext]_vars

\* ------------------------------------------------------------------------
\* The ingestion side: polls of started jobs whose containers have finished
\* with a payload of any shape
\* ------------------------------------------------------------------------
\* Every combination of the four sections being there or not.  An absent
\* section and an empty one take the same branch of ingestResults
\* (results.pages?.length, results.summary), so both are the empty value.
SectionPayloads ==
    { [pages |-> pg, issues |-> is, summary |-> sm, snapshots |-> sn] :
        pg \in {<<>>} \cup {PagesOfLen(n) : n \in 1..MaxPagesInPayload},
        is \in {<<>>, <<IssueCritical>>},
        sm \in {NoSummary, Summary73},
        sn \in {<<>>, <<"https://example.com/">>} }

\* The row of job i after its submit returned normally.
StartedJob(i) ==
    [NewJobRow(i, "https://example.com", DefaultMaxPages, DefaultMaxDepth) EXCEPT
        !.status = "running", !.started_at = Now]

\* The container of a started job after its crawl ended with payload res.
Finished(res) == [Crawling(1) EXCEPT !.state = "completed", !.results = res]

IngestInit ==
    /\ crawl_jobs = [i \in JobIds |-> StartedJob(i)]
    /\ page_audits = <<>>
    /\ site_issues = <<>>
    /\ site_summaries = <<>>
    /\ snapshots = {}
    /\ \E res \in SectionPayloads : container = [j \in JobIds |-> Finished(res)]
    /\ req = [r \in Req |-> IdleReq]
    /\ last = NoAnswer
    /\ ingests = [j \in JobIds |-> 0]
    /\ faults = 0

IngestStep ==
    \/ \E r \in Req : PollRead(r)
    \/ \E r \in Req : PollStatus(r)
    \/ \E r \in Req : IngestDomain(r)
    \/ \E r \in Req : IngestPages(r)
    \/ \E r \in Req : IngestIssues(r)
    \/ \E r \in Req : IngestSummary(r)
    \/ \E r \in Req : IngestSnapshot(r)
    \/ \E r \in Req : IngestMark(r)

IngestNext ==
    \/ last = NoAnswer /\ IngestStep
    \/ Deliver

IngestSpec == IngestInit /\ [][IngestNext]_vars

\* ------------------------------------------------------------------------
\* Progress: submits and polls when every write and every call succeeds,
\* requests in flight go on, and the caller keeps polling
\* ------------------------------------------------------------------------
LiveInit ==
    /\ crawl_jobs = <<>>
    /\ page_audits = <<>>
    /\ site_issues = <<>>
    /\ site_summaries = <<>>
    /\ snapshots = {}
    /\ container = [j \in JobIds |-> IdleContainer]
    /\ req = [r \in Req |-> IdleReq]
    /\ last = NoAnswer
    /\ ingests = [j \in JobIds |-> 0]
    /\ faults = MaxFaults

\* The next step of the request in slot r.
Advance(r) ==
    /\ last = NoAnswer
    /\ \/ SubmitStart(r)
       \/ SubmitMarkRunning(r)
       \/ PollStatus(r)
       \/ IngestDomain(r)
       \/ IngestPages(r)
       \/ IngestIssues(r)
       \/ IngestSummary(r)
       \/ IngestSnapshot(r)
       \/ IngestMark(r)

\* A caller submits a crawl.
Submits == last = NoAnswer /\ \E r \in Req : SubmitInsert(r)

\* A caller polls job j.
Polls(j) ==
    /\ last = NoAnswer
    /\ \E r \in Req : PollRead(r)
    /\ \/ \E r \in Req : req[r].pc = "idle" /\ req'[r].op = "poll" /\ req'[r].jobId = j
       \/ last'.op = "poll" /\ last'.jobId = j

\* The crawl of a container ends.
Finishes == last = NoAnswer /\ \E j \in JobIds : ContainerFinish(j)

LiveNext ==
    \/ Submits
    \/ \E j \in PollIds : Polls(j)
    \/ \E r \in Req : Advance(r)
    \/ Finishes
    \/ Deliver

\* Every request in flight takes its next step, every answer is delivered,
\* and each job is polled again and again.
LiveSpec ==
    /\ LiveInit
    /\ [][LiveNext]_vars
    /\ \A r \in Req : SF_vars(Advance(r))
    /\ SF_vars(Deliver)
    /\ \A j \in JobIds : SF_vars(Polls(j))

\* ------------------------------------------------------------------------
\* The token check under every configuration of the secret
\* ------------------------------------------------------------------------
\* env.API_KEY as deployed: not set, empty, the secret, another string.
Secrets == {Unset, "", API_KEY, "wrong"}

\* What a caller presents: "" is a request without an Authorization
\* header (or with "Bearer " alone) and a bare /mcp or /sse path.
PresentedTokens == Tokens \cup {"s3cre", "S3CRET"}

\* The routes behind the token check.
Routes == {"submit", "poll", "list", "get", "issues", "pages", "query"}

Admits(adapter, key, token) ==
    IF adapter = "mcp" THEN PathAdmits(key, token) ELSE HeaderAdmits(key, token)

\* The request passed the token check and goes on to its route.
Admitted == [NoResp EXCEPT !.class = "admitted"]

\* The token check of a request for route op, on a worker deployed with
\* secret key.
TokenCheck ==
    /\ \E key \in Secrets, tok \in PresentedTokens, op \in Routes :
          last' = [NoAnswer EXCEPT
                      !.op = op, !.token = tok, !.secret = key, !.site = "token_check",
                      !.resp = [a \in Adapters |->
                                   IF Admits(a, key, tok) THEN Admitted ELSE AuthReject(a)]]
    /\ UNCHANGED <<store, container, req, ingests, faults>>

AuthNext ==
    \/ last = NoAnswer /\ TokenCheck
    \/ Deliver

AuthSpec == Init /\ [][AuthNext]_vars

TypeOK ==
    /\ \A j \in DOMAIN crawl_jobs : crawl_jobs[j].status \in Statuses
    /\ \A r \in Req : req[r].op \in {"idle", "submit", "poll"}
    /\ last.op \in {"idle", "submit", "poll", "list", "get", "rejected", "health",
                   "pages", "issues", "query"}
    /\ faults \in 0..MaxFaults
    /\ \A j \in JobIds : ingests[j] \in 0..MaxIngests

\* ========================================================================
\* Properties
\* ========================================================================
\* Rows of a table that belong to job j.
RowsOf(table, j) ==
    LET Of(row) == row.job_id = j IN SelectSeq(table, Of)

\* C1: terminal finality.  Once the stored status of a job is completed or
\* failed, no step of any request changes that job's stored status.
C1_TerminalFinality ==
    [][\A j \in DOMAIN crawl_jobs :
          crawl_jobs[j].status \in Terminal => crawl_jobs'[j].status = crawl_jobs[j].status]_vars

\* C2: every job has a status of the four, a score only when completed and
\* an error only when failed.
C2_JobRowInvariant ==
    \A j \in DOMAIN crawl_jobs :
        /\ crawl_jobs[j].status \in Statuses
        /\ crawl_jobs[j].score # NullInt => crawl_jobs[j].status = "completed"
        /\ crawl_jobs[j].error # NullStr => crawl_jobs[j].status = "failed"


\* A poll of job j begins in this step: a free slot takes it, and it either
\* goes on to its next suspension point or is answered at once.
PollBegins(j) ==
    /\ last = NoAnswer
    /\ \/ \E r \in Req : req[r].pc = "idle" /\ req'[r].op = "poll" /\ req'[r].jobId = j
       \/ req' = req /\ last'.op = "poll" /\ last'.jobId = j

\* C3: a poll of a job whose stored status is completed or failed is
\* answered from the selected row: every front end reports the stored
\* status, score and pages_done, the poll makes no call to the container,
\* does not enter ingestResults, and leaves store and container unchanged.
C3_TerminalPollReadOnly ==
    [][\A j \in DOMAIN crawl_jobs :
          (crawl_jobs[j].status \in Terminal /\ PollBegins(j)) =>
              /\ req' = req
              /\ last'.op = "poll" /\ last'.jobId = j /\ last'.site = "ok"
              /\ last'.cuCalls = 0 /\ last'.ingestCalls = 0
              /\ \A a \in Adapters :
                    /\ last'.resp[a].status = crawl_jobs[j].status
                    /\ last'.resp[a].score = crawl_jobs[j].score
                    /\ last'.resp[a].pages_done = crawl_jobs[j].pages_done
              /\ UNCHANGED <<store, container, ingests>>]_vars

\* A poll of a completed job with a score has just been answered without a
\* call to the container.
C3_Witness ==
    /\ last.op = "poll" /\ last.site = "ok" /\ last.cuCalls = 0
    /\ last.jobId \in DOMAIN crawl_jobs
    /\ crawl_jobs[last.jobId].status = "completed"
    /\ last.resp["rest"].score = 73

\* Every record of seq `wanted` is a row of `table`.
AllStored(wanted, table) ==
    \A i \in 1..Len(wanted) : \E k \in 1..Len(table) : table[k] = wanted[i]

\* C4: when a poll is answered with status completed, the store already
\* holds the job as completed and the page, issue and summary rows of the
\* container's result payload.
C4_CompletedAfterIngestion ==
    \A a \in Adapters :
        (last.op = "poll" /\ last.site = "ok" /\ last.resp[a].status = "completed") =>
            LET j == last.jobId
                res == container[j].results
                dom == crawl_jobs[j].domain
            IN  /\ crawl_jobs[j].status = "completed"
                /\ AllStored([i \in 1..Len(res.pages) |-> PageRow(j, dom, res.pages[i])],
                             page_audits)
                /\ AllStored([i \in 1..Len(res.issues) |-> IssueRow(j, dom, res.issues[i])],
                             site_issues)
                /\ res.summary.present => Len(RowsOf(site_summaries, j)) >= 1

\* The poll that ingested a payload with pages is answered completed.
C4_Witness ==
    /\ last.op = "poll" /\ last.ingestCalls = 1
    /\ last.resp["mcp"].status = "completed"
    /\ Len(container[last.jobId].results.pages) > 0

\* C5: when no write fails, concurrent polls of a job whose container
\* reports completed insert the rows of the payload at most once: no more
\* page, issue or summary rows of the job than the payload has.
C5_IngestAtMostOnce ==
    faults = 0 =>
        \A j \in DOMAIN crawl_jobs :
            /\ Len(RowsOf(page_audits, j)) <= Len(container[j].results.pages)
            /\ Len(RowsOf(site_issues, j)) <= Len(container[j].results.issues)
            /\ Len(RowsOf(site_summaries, j)) <= 1

\* The answer carries exactly the selected row, as a normal answer.
AnswersRow(resp, job) ==
    /\ resp.class \in {"json", "tool"}
    /\ resp.class = "json" => resp.http = 200
    /\ resp.job_id = job.id /\ resp.status = job.status /\ resp.score = job.score
    /\ resp.pages_found = job.pages_found /\ resp.pages_done = job.pages_done
    /\ resp.error = job.error

\* C6: a poll whose status call throws or is answered non-2xx returns the
\* row it selected from the store, writes nothing to the store, and is not
\* answered completed.
C6_UnreachablePollKeepsStore ==
    [][\A r \in Req :
          (req[r].pc = "status" /\ req'[r].pc = "idle" /\ faults' # faults) =>
              /\ UNCHANGED store
              /\ last'.op = "poll" /\ last'.jobId = req[r].jobId
              /\ \A a \in Adapters :
                    /\ AnswersRow(last'.resp[a], req[r].job)
                    /\ last'.resp[a].status # "completed"]_vars

\* A poll has just been answered with the selected row after a status call
\* that failed.
C6_Witness ==
    /\ last.op = "poll" /\ last.cuCalls = 1 /\ last.ingestCalls = 0
    /\ faults > 0
    /\ last.resp["rest"].error # AbsentStr
    /\ last.resp["rest"].status \in {"queued", "running"}

\* C7: a poll during which ingestResults threw is answered with an error
\* (500 on the REST routes, an error result on the tool protocol).
C7_IngestFailureSurfaces ==
    (last.op = "poll" /\ last.ingestCalls > 0 /\ last.caught) =>
        /\ last.resp["rest"].http = 500
        /\ last.resp["gateway"].http = 500
        /\ last.resp["mcp"].class = "tool_error"

\* C8: in the dual-role worker, a submit whose start call threw or was
\* answered non-2xx leaves the job failed with an error message and is
\* answered 502 with the job id on the REST route.
C8_StartFailureIs502 ==
    (/\ last.op = "submit" /\ last.jobId \in DOMAIN crawl_jobs
     /\ container[last.jobId].starts > 0 /\ container[last.jobId].state = "none") =>
        /\ crawl_jobs[last.jobId].status = "failed"
        /\ crawl_jobs[last.jobId].error # NullStr
        /\ last.resp["rest"].http = 502
        /\ last.resp["rest"].job_id = last.jobId

\* The job ids of a listing.
ListedIds(jobs) == {jobs[i].id : i \in 1..Len(jobs)}

\* C9: when submit returns with success or with a failed start, the job is
\* in the default listing and get finds it; after a failed start it is
\* listed as failed, and its stored status is one pollJob answers from the
\* store.
C9_SubmittedJobIsListed ==
    (last.op = "submit" /\ last.site \in {"ok", "start_failed"}) =>
        LET j == last.jobId IN
        /\ j \in ListedIds(listJobs(NullStr, NullStr, Absent))
        /\ getJob(j).site = "ok" /\ getJob(j).body.job_id = j
        /\ last.site = "start_failed" =>
              /\ j \in ListedIds(listJobs(NullStr, "failed", Absent))
              /\ getJob(j).body.status = "failed"
              /\ IsTerminal(crawl_jobs[j].status)

\* A submit has just returned with a failed start.
C9_Witness ==
    /\ last.op = "submit" /\ last.site = "start_failed"
    /\ crawl_jobs[last.jobId].status = "failed"

\* The start call of job j is made in this step.
StartCalled(j) == container'[j].starts > container[j].starts

\* The host of the URLs of the model, as the claim expects it.
ExpectedHost(url) ==
    IF url = "https://example.com" THEN "example.com" ELSE "shop.example.org"

\* The row of a started job says running, and so does the answer.
RunningAnswered(j) ==
    /\ crawl_jobs[j].status = "running" /\ crawl_jobs[j].started_at # NullInt
    /\ \A a \in Adapters :
          /\ last.resp[a].status = "running"
          /\ last.resp[a].job_id = j
          /\ last.resp[a].domain = ExpectedHost(crawl_jobs[j].start_url)

C11_MutatingTexts ==
    {"  \n\tdrop table site_issues", "Delete from site_issues",
     "uPdAtE site_issues SET severity = 'info'", "insert into notes VALUES ('x')",
     "REPLACE INTO notes VALUES ('x')", " create table notes (n TEXT)",
     "Alter table site_issues ADD COLUMN note TEXT"}

\* C11: a statement that, trimmed and upper-cased, starts with INSERT,
\* UPDATE, DELETE, DROP, ALTER, CREATE or REPLACE is rejected by every front
\* end whatever its case and leading white space, is never run, and leaves
\* the store as it was.
C11_MutatingPrefixRejected ==
    /\ []((last.op = "query" /\ last.args.sql \in C11_MutatingTexts) =>
             /\ last.site = "query_rejected" /\ last.sqlRuns = 0
             /\ last.resp["rest"].class = "json" /\ last.resp["rest"].http >= 400
             /\ last.resp["gateway"].class = "json" /\ last.resp["gateway"].http >= 400
             /\ last.resp["mcp"].class = "tool_error")
    /\ [][(last = NoAnswer /\ last'.op = "query" /\ last'.args.sql \in C11_MutatingTexts) =>
             UNCHANGED store]_vars

\* A lower-case DROP behind white space has just been rejected while the
\* table it names has rows.
C11_Witness ==
    /\ last.op = "query" /\ last.args.sql = "  \n\tdrop table site_issues"
    /\ last.site = "query_rejected"
    /\ Len(site_issues) > 0

\* C12: a statement the guard accepts leaves every table of the store
\* unchanged when it is run.
C12_QueryReadOnly ==
    [][(last = NoAnswer /\ last'.op = "query" /\ last'.site = "ok") => UNCHANGED store]_vars


\* The answer is a success: a 2xx/3xx JSON response or a tool result.
Served(resp) == resp.class = "tool" \/ (resp.class = "json" /\ resp.http < 400)

\* C13: a request whose token is missing or wrong is answered 401 by the
\* bearer-header front ends and 403 by the token-in-path front end, no
\* request with such a token is ever in flight in the business logic, the
\* rejection leaves store and containers untouched, and only the health
\* probe is served without the right token.
C13_TokenCheckFirst ==
    /\ []((last.op \notin {"idle", "health"} /\ last.token # API_KEY) =>
             /\ last.site = "unauthorized"
             /\ last.cuCalls = 0 /\ last.ingestCalls = 0 /\ last.sqlRuns = 0
             /\ last.resp["rest"].http = 401 /\ last.resp["gateway"].http = 401
             /\ last.resp["mcp"].http = 403)
    /\ [](\A r \in Req : req[r].pc # "idle" => req[r].token = API_KEY)
    /\ []((last.token # API_KEY /\ \E a \in Adapters : Served(last.resp[a])) =>
             last.op = "health")
    /\ [][(last = NoAnswer /\ last'.op # "idle" /\ last'.token # API_KEY) =>
             UNCHANGED <<store, container>>]_vars

\* A request with a wrong token has just been rejected by a worker whose
\* store holds a job.
C13_Witness ==
    /\ last.op = "rejected" /\ last.token = "wrong" /\ last.site = "unauthorized"
    /\ Len(crawl_jobs) > 0


\* C14: whatever the limit argument, a listing has at most 100 jobs, and at
\* most 20 when no limit is given.
C14_ListLimitClamped ==
    last.op = "list" =>
        \A a \in Adapters :
            /\ Len(last.resp[a].jobs) <= 100
            /\ last.args.limit = Absent => Len(last.resp[a].jobs) <= 20

\* C15: for a limit >= 0, getPages returns at most min(limit, 200) rows (none
\* for limit 0), and at most 50 when no limit is given; never an error.
C15_PageLimitClamped ==
    last.op = "pages" =>
        \A a \in Adapters :
            /\ Served(last.resp[a])
            /\ last.args.limit >= 0 => Len(last.resp[a].rows) <= Min(last.args.limit, 200)
            /\ last.args.limit = Absent => Len(last.resp[a].rows) <= 50

\* The ids of the rows of an answer.
RowIds(rows) == {rows[i].id : i \in 1..Len(rows)}

\* critical before warning before info
C16_Order(severity) ==
    CASE severity = "critical" -> 1
      [] severity = "warning" -> 2
      [] severity = "info" -> 3

\* C16: getIssues with severity s returns exactly the issue rows of the job
\* whose severity is s, each once, all of them rows of the unfiltered
\* result; the unfiltered result has every row of the job, critical rows
\* before warning rows before info rows.
C16_IssuesFilteredAndOrdered ==
    last.op = "issues" =>
        \A a \in Adapters :
            LET rows == last.resp[a].rows
                sev == last.args.severity
                want == {k \in 1..Len(site_issues) :
                            /\ site_issues[k].job_id = last.jobId
                            /\ sev # NullStr => site_issues[k].severity = sev}
            IN  /\ RowIds(rows) = want
                /\ Cardinality(want) = Len(rows)
                /\ \A i \in 1..Len(rows) :
                      /\ rows[i].severity = site_issues[rows[i].id].severity
                      /\ rows[i].job_id = last.jobId
                /\ RowIds(rows) \subseteq RowIds(getIssues(last.jobId, NullStr))
                /\ sev = NullStr =>
                      \A i, k \in 1..Len(rows) :
                          i < k => C16_Order(rows[i].severity) <= C16_Order(rows[k].severity)

\* The critical issues of a job that also has warning and info issues have
\* just been returned.
C16_Witness ==
    /\ last.op = "issues" /\ last.args.severity = "critical"
    /\ Len(last.resp["rest"].rows) = 2
    /\ Len(getIssues(last.jobId, NullStr)) = 4
    /\ getIssues(last.jobId, NullStr)[4].severity = "info"

\* The five problems of a page row, as the claim lists them.
C17_HasProblem(row) ==
    \/ row.title_status = "fail"
    \/ row.meta_desc_status = "fail"
    \/ row.h1_count = 0
    \/ row.has_viewport = 0
    \/ row.mixed_content = 1

\* The number of rows a window of `limit` rows after `offset` rows shows of
\* n rows.
C17_Window(n, limit, offset) ==
    LET shown == IF limit = Absent THEN 50 ELSE Min(limit, 200)
        skipped == IF offset = Absent THEN 0 ELSE offset
    IN  Min(shown, IF n > skipped THEN n - skipped ELSE 0)

\* C17: getPages with problems_only returns only rows of the job that have
\* one of the five problems, each once, as many as the window of limit and
\* offset allows, and all of them when the window is wide enough.
C17_ProblemPagesOnly ==
    (last.op = "pages" /\ last.args.problems_only /\ last.args.limit # 0) =>
        \A a \in Adapters :
            LET rows == last.resp[a].rows
                problems == {k \in 1..Len(page_audits) :
                                /\ page_audits[k].job_id = last.jobId
                                /\ C17_HasProblem(page_audits[k])}
            IN  /\ RowIds(rows) \subseteq problems
                /\ Cardinality(RowIds(rows)) = Len(rows)
                /\ Len(rows) = C17_Window(Cardinality(problems), last.args.limit,
                                          last.args.offset)
                /\ \A i \in 1..Len(rows) :
                      rows[i].title_status = page_audits[rows[i].id].title_status

\* A page whose only problem is its title has just been returned by
\* getPages with problems_only.
C17_Witness ==
    /\ last.op = "pages" /\ last.args.problems_only
    /\ \E i \in 1..Len(last.resp["mcp"].rows) :
          LET row == page_audits[last.resp["mcp"].rows[i].id] IN
          /\ row = PageRow(last.jobId, row.domain, PageFail)
          /\ row.title_status = "fail" /\ row.meta_desc_status # "fail"
          /\ row.h1_count > 0 /\ row.has_viewport = 1 /\ row.mixed_content = 0


\* C18: in the dual-role worker a poll or get of a job id the store does
\* not hold is answered 404 on the REST routes, with no call to the
\* container.
C18_UnknownJobIs404 ==
    (last.op \in {"poll", "get"} /\ last.jobId \notin DOMAIN crawl_jobs) =>
        /\ last.site = "not_found"
        /\ last.cuCalls = 0
        /\ last.resp["rest"].http = 404

\* C19: in the dual-role worker a statement the denylist rejects is
\* answered 403 on the REST route.
C19_RejectedQueryIs403 ==
    (last.op = "query" /\ last.site = "query_rejected") => last.resp["rest"].http = 403

\* C20: a submit whose url is present but not a well-formed absolute URL is
\* answered 400 on the REST route and inserts no job row.
C20_MalformedUrlIs400 ==
    /\ []((last.op = "submit" /\ last.site = "invalid_url") => last.resp["rest"].http = 400)
    /\ [][(last = NoAnswer /\ last'.op = "submit" /\ last'.site = "invalid_url") =>
             crawl_jobs' = crawl_jobs]_vars


\* The front end answered with an error: a JSON error status with a
\* message, or an error result of the tool protocol.
ErrorAnswer(resp) ==
    /\ resp.class \in {"json", "tool_error"}
    /\ resp.class = "json" => resp.http >= 400
    /\ resp.msg # NullStr

\* C21: whenever an operation left the business logic by a throw, every
\* front end (REST routes of both workers, tool handlers) answers with an
\* error response that carries a message; the exception never leaves the
\* request handler.
C21_ThrowsAreCaught ==
    (last.op \in {"submit", "poll", "get"} /\ last.site # "ok") =>
        \A a \in Adapters : ErrorAnswer(last.resp[a])


\* The front end accepted the request and answered with its result.
Accepted(resp) == resp.class = "tool" \/ (resp.class = "json" /\ resp.http < 400)

\* C22: for every operation and the same arguments and store, the REST
\* routes and the tool handlers of the dual-role worker both accept or both
\* reject (they call the same functions, so the store change of an accepted
\* request is the same).
C22_SameOutcome ==
    last.op \in {"submit", "poll", "list", "get", "issues", "pages", "query"} =>
        (Accepted(last.resp["rest"]) <=> Accepted(last.resp["mcp"]))


\* C23: for every authenticated request, the same store and the same
\* container behaviour, the REST route of the dual-role worker and the
\* standalone gateway answer with the same HTTP status, the same job id and
\* as many rows (both make the store change of the one request modelled).
C23_GatewayCompatible ==
    (last.op \in {"submit", "poll", "list", "get", "issues", "pages", "query"}
        /\ last.token = API_KEY) =>
        /\ last.resp["rest"].class = last.resp["gateway"].class
        /\ last.resp["rest"].http = last.resp["gateway"].http
        /\ last.resp["rest"].job_id = last.resp["gateway"].job_id
        /\ Len(last.resp["rest"].rows) = Len(last.resp["gateway"].rows)


\* C24: the columns of a query answer are the field names of the first
\* result row, in its order; an empty result has no columns and count 0.
C24_ColumnsOfFirstRow ==
    (last.op = "query" /\ last.site = "ok") =>
        \A a \in Adapters :
            LET resp == last.resp[a] IN
            IF Len(resp.rows) = 0
            THEN resp.columns = <<>> /\ resp.count = 0
            ELSE /\ Len(resp.columns) = Len(resp.rows[1])
                 /\ \A i \in 1..Len(resp.columns) : resp.columns[i] = resp.rows[1][i][1]
                 /\ resp.count = Len(resp.rows)

\* The issue query has just been answered on a store with several issue
\* rows: two columns, as many rows as the table has.
C24_Witness ==
    /\ last.op = "query" /\ last.site = "ok"
    /\ last.args.sql = "SELECT id, severity FROM site_issues"
    /\ last.resp["rest"].columns = <<"id", "severity">>
    /\ last.resp["rest"].count = Len(site_issues) /\ Len(site_issues) > 1


\* The changes of a stored status the state machine of a job allows.
LegalTransitions ==
    {<<"queued", "running">>, <<"running", "completed">>, <<"running", "failed">>,
     <<"queued", "failed">>}

\* C25: every change of a job's stored status is queued -> running,
\* running -> completed, running -> failed or queued -> failed.
C25_LegalTransitionsOnly ==
    [][\A j \in DOMAIN crawl_jobs :
          crawl_jobs'[j].status # crawl_jobs[j].status =>
              <<crawl_jobs[j].status, crawl_jobs'[j].status>> \in LegalTransitions]_vars


\* C26: the store holds at most one summary row per job, also after an
\* ingestion that failed and was tried again by a later poll.
C26_OneSummaryPerJob ==
    \A j \in DOMAIN crawl_jobs : Len(RowsOf(site_summaries, j)) <= 1


\* The score of a payload as the job row is to hold it: the summary's
\* score, null without a summary.
C27_PayloadScore(res) == IF res.summary.present THEN res.summary.score ELSE NullInt

\* C27: a job whose stored status is completed has the payload's number of
\* pages as pages_done and the payload's summary score as score; the step
\* that sets the status to completed writes both, and no other step
\* changes them.
C27_CompletedCountersFresh ==
    /\ [](\A j \in DOMAIN crawl_jobs :
              crawl_jobs[j].status = "completed" =>
                  /\ crawl_jobs[j].pages_done = Len(container[j].results.pages)
                  /\ crawl_jobs[j].score = C27_PayloadScore(container[j].results))
    /\ [][\A j \in DOMAIN crawl_jobs :
             (\/ crawl_jobs'[j].pages_done # crawl_jobs[j].pages_done
              \/ crawl_jobs'[j].score # crawl_jobs[j].score
              \/ (crawl_jobs'[j].status = "completed" /\ crawl_jobs[j].status # "completed")) =>
                 /\ crawl_jobs'[j].status = "completed"
                 /\ crawl_jobs'[j].pages_done = Len(container[j].results.pages)
                 /\ crawl_jobs'[j].score = C27_PayloadScore(container[j].results)]_vars

\* A job is stored as completed with the page count and the score of a
\* payload that has a page and a summary.
C27_Witness ==
    \E j \in DOMAIN crawl_jobs :
        /\ crawl_jobs[j].status = "completed"
        /\ crawl_jobs[j].pages_done = 1 /\ crawl_jobs[j].score = 73
        /\ Len(container[j].results.pages) = 1


\* C28: a snapshot write that fails does not end the ingestion: the rows
\* inserted so far stay, and the request goes on to the next snapshot or
\* to the update that marks the job completed.
C28_SnapshotFailureTolerated ==
    [][\A r \in Req :
          (req[r].pc = "ing_snapshot" /\ req'[r] # req[r] /\ faults' # faults) =>
              /\ UNCHANGED <<page_audits, site_issues, site_summaries>>
              /\ req'[r].pc \in {"ing_snapshot", "ing_mark"}
              /\ last' = NoAnswer]_vars


\* C29: when the batch insert of the pages or of the issues fails, that
\* ingestion ends there: the step leaves crawl_jobs and the table of the
\* batch as they were, the poll returns, and it is answered with the
\* non-terminal status it read, not with completed.
C29_BatchFailureNotCompleted ==
    [][\A r \in Req :
          (req[r].pc \in {"ing_pages", "ing_issues"} /\ req'[r] # req[r] /\ faults' # faults) =>
              /\ UNCHANGED <<crawl_jobs, page_audits, site_issues>>
              /\ req'[r].pc = "idle"
              /\ last'.op = "poll" /\ last'.jobId = req[r].jobId
              /\ \A a \in Adapters :
                    /\ last'.resp[a].status = req[r].job.status
                    /\ last'.resp[a].status \in {"queued", "running"}]_vars

\* A poll whose page batch failed has just returned: the payload has
\* pages, the store has none of the job, and the job is not completed.
C29_Witness ==
    /\ last.op = "poll" /\ last.ingestCalls = 1 /\ last.caught
    /\ Len(container[last.jobId].results.pages) > 0
    /\ Len(RowsOf(page_audits, last.jobId)) = 0
    /\ crawl_jobs[last.jobId].status \in {"queued", "running"}


\* C30: a poll whose status call is answered with the progress of a crawl
\* under way returns status running with the reported pages_done and
\* pages_found and writes nothing: the store is as it was before the step.
C30_ProgressNotPersisted ==
    [][\A r \in Req :
          (/\ req[r].pc = "status" /\ req'[r].pc = "idle" /\ faults' = faults
           /\ container[req[r].jobId].state = "crawling") =>
              /\ UNCHANGED store
              /\ last'.op = "poll" /\ last'.jobId = req[r].jobId /\ last'.site = "ok"
              /\ \A a \in Adapters :
                    /\ Accepted(last'.resp[a])
                    /\ last'.resp[a].status = "running"
                    /\ last'.resp[a].pages_done = container[req[r].jobId].pages_done
                    /\ last'.resp[a].pages_found = container[req[r].jobId].pages_found]_vars

\* A poll has just been answered running with progress the job row does
\* not hold.
C30_Witness ==
    /\ last.op = "poll" /\ last.site = "ok" /\ last.cuCalls = 1 /\ last.ingestCalls = 0
    /\ last.resp["rest"].status = "running"
    /\ last.resp["rest"].pages_done = 1 /\ last.resp["mcp"].pages_found = 2
    /\ crawl_jobs[last.jobId].pages_done = 0 /\ crawl_jobs[last.jobId].pages_found = 0
    /\ crawl_jobs[last.jobId].status \in {"queued", "running"}


\* The bucket keys of job j.
KeysOf(j) == {k \in snapshots : k[1] = j}

\* C31: whatever sections the payload has, a poll that ingests it while no
\* write fails raises no error, is answered completed, leaves the job
\* stored as completed, and the store has rows of the job exactly in the
\* tables whose section the payload has.
C31_PartialPayloadIngested ==
    (last.op = "poll" /\ last.ingestCalls > 0 /\ faults = 0) =>
        LET j == last.jobId
            res == container[j].results
        IN  /\ ~last.caught /\ last.site = "ok"
            /\ \A a \in Adapters : Accepted(last.resp[a]) /\ last.resp[a].status = "completed"
            /\ crawl_jobs[j].status = "completed"
            /\ (Len(RowsOf(page_audits, j)) > 0) <=> (Len(res.pages) > 0)
            /\ (Len(RowsOf(site_issues, j)) > 0) <=> (Len(res.issues) > 0)
            /\ (Len(RowsOf(site_summaries, j)) > 0) <=> res.summary.present
            /\ (KeysOf(j) # {}) <=> (Len(res.snapshots) > 0)

\* A payload that has issues and snapshots but neither pages nor a summary
\* has just been ingested.
C31_Witness ==
    /\ last.op = "poll" /\ last.ingestCalls > 0 /\ faults = 0
    /\ container[last.jobId].results.pages = <<>>
    /\ ~container[last.jobId].results.summary.present
    /\ Len(RowsOf(site_issues, last.jobId)) > 0 /\ KeysOf(last.jobId) # {}
    /\ crawl_jobs[last.jobId].status = "completed"


\* C32: no call to the container is repeated.  A submit that inserted its
\* job row has made exactly one start call when it returns, whether the
\* call was accepted or not, and a submit rejected before that none; a
\* poll has made at most one status call; no job is started twice.
C32_NoAutomaticRetry ==
    /\ (last.op = "submit" /\ last.site \in {"ok", "start_failed", "update_failed"}) =>
           last.cuCalls = 1
    /\ (last.op = "submit" /\ last.site \notin {"ok", "start_failed", "update_failed"}) =>
           last.cuCalls = 0
    /\ last.op = "poll" => last.cuCalls <= 1
    /\ \A r \in Req : req[r].cuCalls <= 1
    /\ \A j \in JobIds : container[j].starts <= 1

\* A submit whose start call failed has just returned after one call.
C32_Witness ==
    /\ last.op = "submit" /\ last.site = "start_failed" /\ last.cuCalls = 1
    /\ container[last.jobId].starts = 1 /\ container[last.jobId].state = "none"


\* C33: a poll whose status call was answered with a terminal report of
\* the container (completed or failed) leaves the job stored with that
\* status and answers with it; it does not answer running.
C33_TerminalReportStored ==
    (/\ last.op = "poll" /\ last.site = "ok" /\ last.cuCalls = 1 /\ faults = 0
     /\ container[last.jobId].state \in Terminal) =>
        /\ crawl_jobs[last.jobId].status = container[last.jobId].state
        /\ \A a \in Adapters : last.resp[a].status = container[last.jobId].state


\* C34: a summary row of a job is in the store only while the job is
\* stored as completed, in every state, so that get never returns a
\* summary with a job that is not completed.
C34_SummaryOnlyWhenCompleted ==
    \A j \in DOMAIN crawl_jobs :
        /\ Len(RowsOf(site_summaries, j)) > 0 => crawl_jobs[j].status = "completed"
        /\ getJob(j).body.summary # <<NoSummaryRow>> => getJob(j).body.status = "completed"


\* Table `after` is table `before` with rows added at its end.
C35_Extends(before, after) ==
    /\ Len(after) >= Len(before)
    /\ \A k \in 1..Len(before) : after[k] = before[k]

\* C35: no step of submit, poll, ingestion, list, get, getIssues or
\* getPages removes or rewrites a row of page_audits, site_issues or
\* site_summaries, removes a bucket key or a job row, or changes the id,
\* domain, start URL or configuration of a job row.
C35_AppendOnly ==
    [][last'.op # "query" =>
          /\ C35_Extends(page_audits, page_audits')
          /\ C35_Extends(site_issues, site_issues')
          /\ C35_Extends(site_summaries, site_summaries')
          /\ snapshots \subseteq snapshots'
          /\ Len(crawl_jobs') >= Len(crawl_jobs)
          /\ \A j \in DOMAIN crawl_jobs :
                /\ crawl_jobs'[j].id = crawl_jobs[j].id
                /\ crawl_jobs'[j].domain = crawl_jobs[j].domain
                /\ crawl_jobs'[j].start_url = crawl_jobs[j].start_url
                /\ crawl_jobs'[j].config = crawl_jobs[j].config]_vars

\* A job with page rows has had its status changed after the insert while
\* its row still says what was submitted.
C35_Witness ==
    \E j \in DOMAIN crawl_jobs :
        /\ crawl_jobs[j].status = "completed"
        /\ Len(RowsOf(page_audits, j)) > 0
        /\ crawl_jobs[j].start_url = "https://shop.example.org:8443/a"
        /\ crawl_jobs[j].domain = "shop.example.org"
        /\ crawl_jobs[j].config = [max_pages |-> DefaultMaxPages, max_depth |-> DefaultMaxDepth]


\* C36: a job stored as completed has as many page rows as its stored
\* pages_done says.
C36_PageRowsMatchPagesDone ==
    \A j \in DOMAIN crawl_jobs :
        crawl_jobs[j].status = "completed" =>
            Len(RowsOf(page_audits, j)) = crawl_jobs[j].pages_done


\* The model's cap on ingestion runs keeps job j from being ingested.
C37_Capped(j) ==
    /\ ingests[j] >= MaxIngests
    /\ j \in DOMAIN crawl_jobs /\ crawl_jobs[j].status \notin Terminal

\* C37: when every write succeeds and the caller keeps polling, a job
\* whose container from some time on reports completed with results is
\* from some time on stored as completed.
C37_EventuallyCompleted ==
    \A j \in JobIds :
        (<>[](container[j].state = "completed") /\ []<>(~C37_Capped(j))) =>
            <>[](j \in DOMAIN crawl_jobs /\ crawl_jobs[j].status = "completed")

\* A job is stored as completed after its submit returned and a second
\* ingestion ran: the completion that submit's update overwrote was made
\* again.
C37_Witness ==
    \E j \in DOMAIN crawl_jobs :
        /\ crawl_jobs[j].status = "completed" /\ ingests[j] = 2
        /\ \A r \in Req : req[r].pc = "idle"


\* The front end turned the request away at the token check.
Rejected(resp) == resp.class = "json" /\ resp.http \in {401, 403}

\* C38: on a worker whose secret is unset or empty, a request without an
\* Authorization header is rejected by the REST routes of both workers,
\* and a tool-protocol request is rejected whatever its path token.
C38_NoSecretNoAccess ==
    (last.site = "token_check" /\ last.secret \in {Unset, ""}) =>
        /\ Rejected(last.resp["mcp"])
        /\ last.token = "" => Rejected(last.resp["rest"]) /\ Rejected(last.resp["gateway"])

====
